---------------------------- MODULE Spec2Model ----------------------------
(***************************************************************************)
(* Model of the SSD1309/SSD1306 I2C OLED driver (pico/ssd1309.py).         *)
(*                                                                         *)
(* Two state machines share this module:                                   *)
(*   Spec     the Display object and the frames it hands to the I2C        *)
(*            transport (construction, present, clear, sleep, wake,        *)
(*            write_cmd, draw_pixel);                                      *)
(*   SpecBuf  the bitmap helpers (load_buf, xform_buf, mirror_horizontal,  *)
(*            buf_hmsb_to_vlsb) applied to packed monochrome bitmaps.      *)
(*                                                                         *)
(* Bytes are integers 0..255, a bytearray is a sequence of bytes; Python's *)
(* 0-based index i is position i+1 of the sequence.                        *)
(***************************************************************************)
EXTENDS Integers, Sequences, FiniteSets, TLC

VARIABLES
    constructed,  \* a Display object exists (its __init__ returned)
    address,      \* self.address
    width,        \* self.width
    height,       \* self.height
    mono_image,   \* self.mono_image, the bytes behind self.monoFB
    wire,         \* frames handed to i2c.writeto by the last operation
    lastOp,       \* the operation that ran last
    opArgs,       \* the arguments of write_cmd (<<command>> \o args) or of the drawing call
    printed,      \* the lines the last operation printed
    result,       \* how it ended: "ok" or the exception that reached the caller
    buf,          \* the bitmap passed to the last bitmap helper (after the call)
    w,            \* its width
    h,            \* its height
    out,          \* the bytearray the helper returned
    new_w,        \* the width it returned (or w)
    new_h,        \* the height it returned (or h)
    lastCall,     \* the bitmap helper that ran last, with its invert and rotate
    loaded,       \* the bitmap as load_buf read it: [buf, w, h]
    reps,         \* how many times lastCall has been applied in a row since load_buf
    raised        \* the exception the last bitmap helper raised, "none" if it returned

dvars == <<constructed, address, width, height, mono_image, wire, lastOp, opArgs, printed,
           result>>
bvars == <<buf, w, h, out, new_w, new_h, lastCall, loaded, reps, raised>>
vars == <<constructed, address, width, height, mono_image, wire, lastOp, opArgs, printed, result,
          buf, w, h, out, new_w, new_h, lastCall, loaded, reps, raised>>

---------------------------------------------------------------------------
(* Bounds of the model.                                                    *)

\* draw_pixel is offered while it leaves at most MaxLit bytes of the frame non-zero
MaxLit == 1
\* bitmaps handed to the helpers are at most MaxW pixels wide
MaxW == 9
\* ... and at most MaxH pixels high
MaxH == 9
\* ... with contents Pattern(n, s) for s in 0..MaxSeed
MaxSeed == 3
\* a helper is applied to its own result at most MaxReps times in a row
MaxReps == 4
\* circles are drawn with radius 0..MaxR
MaxR == 3
\* sprites and rectangles are 1..MaxSide pixels wide and high
MaxSide == 2

\* I2C write addresses (8-bit form) the display answers to; 0x78 is the default
Addresses == {120, 122}
\* geometries the constructor is given: panel sizes of the controller family,
\* and a width that is no multiple of 8
DisplayWidths == {12, 64, 128}
DisplayHeights == {8, 16, 32, 64}
\* geometries of the canvas the drawing primitives are exercised on
CanvasWidths == {16}
CanvasHeights == {8, 16}

---------------------------------------------------------------------------
(* Bit arithmetic on bytes.                                                *)

Pow2(k) == <<1, 2, 4, 8, 16, 32, 64, 128>>[k + 1]

\* (b >> k) & 1
Bit(b, k) == (b \div Pow2(k)) % 2

\* b | (v << k) for v in {0, 1}
OrBit(b, k, v) == IF v = 1 /\ Bit(b, k) = 0 THEN b + Pow2(k) ELSE b

\* bytearray(n): n zero bytes
Zeros(n) == [i \in 1..n |-> 0]

\* ((width - 1) >> 3) + 1, with Python's floor shift for width = 0
get_byte_size(n) == IF n >= 1 THEN ((n - 1) \div 8) + 1 ELSE 0

---------------------------------------------------------------------------
(* Command constants from the display datasheet.                           *)

CONTRAST_CONTROL == 129
ENTIRE_DISPLAY_ON == 164
INVERSION_OFF == 166
DISPLAY_OFF == 174
DISPLAY_ON == 175
CHARGE_PUMP == 141
MEMORY_ADDRESSING_MODE == 32
COLUMN_ADDRESS == 33
PAGE_ADDRESS == 34
DISPLAY_START_LINE == 64
SEGMENT_MAP_FLIPPED == 161
MUX_RATIO == 168
COM_OUTPUT_FLIPPED == 200
DISPLAY_OFFSET == 211
COM_PINS_HW_CFG == 218
DISPLAY_CLOCK_DIV == 213
PRECHARGE_PERIOD == 217
VCOM_DESELECT_LEVEL == 219

---------------------------------------------------------------------------
(* Protocol framing.  A frame is what one i2c.writeto call is given.       *)

\* write_cmd(command): i2c.writeto(self.address, bytearray([0x80, command]))
CmdFrame(addr, command) == [addr |-> addr, bytes |-> <<128, command>>]

\* write_data(data) for a bytearray: bytearray([0x40]) + data
DataFrame(addr, data) == [addr |-> addr, bytes |-> <<64>> \o data]

\* Transmit with a retry: the refused write is handed to the transport a second
\* time and the operation carries on
TransmitRetry(plan, failAt) ==
    IF failAt = 0
    THEN [i \in 1..Len(plan) |-> [addr |-> plan[i].addr, bytes |-> plan[i].bytes, ok |-> TRUE]]
    ELSE [i \in 1..(Len(plan) + 1) |->
            LET j == IF i <= failAt THEN i ELSE i - 1
            IN  [addr |-> plan[j].addr, bytes |-> plan[j].bytes, ok |-> (i # failAt)]]

\* The transport refuses write number failAt (0: none).  The exception leaves
\* the driver at once: the writes before it were made, it was made once, the
\* writes after it never are.
Transmit(plan, failAt) ==
    [i \in 1..(IF failAt = 0 THEN Len(plan) ELSE failAt) |->
        [addr |-> plan[i].addr, bytes |-> plan[i].bytes, ok |-> (i # failAt)]]

Outcome(failAt) == IF failAt = 0 THEN "ok" ELSE "TransportFailure"

---------------------------------------------------------------------------
(* The Display object: pure parts.                                         *)

\* self.byte_width = -(-width // 8)
byte_width(wd) == (wd + 7) \div 8

\* self.buffer_length = self.byte_width * height
buffer_length(wd, ht) == byte_width(wd) * ht

\* 0x02 if (height == 32 or height == 16) and (width != 64) else 0x12
ComPinsCfg(wd, ht) == IF (ht = 32 \/ ht = 16) /\ wd # 64 THEN 2 ELSE 18

\* InitCommands with the display switched on before the panel is configured
InitCommandsDisplayOnFirst(wd, ht) ==
    << DISPLAY_ON,
       DISPLAY_CLOCK_DIV, 128,
       MUX_RATIO, ht - 1,
       DISPLAY_OFFSET, 0,
       DISPLAY_START_LINE,
       CHARGE_PUMP, 20,
       MEMORY_ADDRESSING_MODE, 0,
       SEGMENT_MAP_FLIPPED,
       COM_OUTPUT_FLIPPED,
       COM_PINS_HW_CFG, ComPinsCfg(wd, ht),
       CONTRAST_CONTROL, 255,
       PRECHARGE_PERIOD, 241,
       VCOM_DESELECT_LEVEL, 64,
       ENTIRE_DISPLAY_ON,
       INVERSION_OFF,
       DISPLAY_OFF >>

\* the tuple __init__ iterates over, one write_cmd per element
InitCommands(wd, ht) ==
    << DISPLAY_OFF,
       DISPLAY_CLOCK_DIV, 128,
       MUX_RATIO, ht - 1,
       DISPLAY_OFFSET, 0,
       DISPLAY_START_LINE,
       CHARGE_PUMP, 20,
       MEMORY_ADDRESSING_MODE, 0,
       SEGMENT_MAP_FLIPPED,
       COM_OUTPUT_FLIPPED,
       COM_PINS_HW_CFG, ComPinsCfg(wd, ht),
       CONTRAST_CONTROL, 255,
       PRECHARGE_PERIOD, 241,
       VCOM_DESELECT_LEVEL, 64,
       ENTIRE_DISPLAY_ON,
       INVERSION_OFF,
       DISPLAY_ON >>

\* ColumnWindow with the shift applied to every panel up to 64 columns wide
ColumnWindowShiftNarrow(wd) ==
    IF wd <= 64 THEN <<0 + 32, (wd - 1) + 32>> ELSE <<0, wd - 1>>

\* column_beg, column_end of present_buf: shifted by 32 when w == 64
ColumnWindow(wd) == IF wd = 64 THEN <<0 + 32, (wd - 1) + 32>> ELSE <<0, wd - 1>>

\* pages_beg, pages_end of present_buf
PageWindow(ht) == <<0, (ht \div 8) - 1>>

\* present_buf that streams the frame before it sets the page range
present_buf_data_early(addr, image, wd, ht) ==
    << CmdFrame(addr, COLUMN_ADDRESS),
       CmdFrame(addr, ColumnWindow(wd)[1]),
       CmdFrame(addr, ColumnWindow(wd)[2]),
       DataFrame(addr, image),
       CmdFrame(addr, PAGE_ADDRESS),
       CmdFrame(addr, PageWindow(ht)[1]),
       CmdFrame(addr, PageWindow(ht)[2]) >>

\* present_buf(buf, w, h): six write_cmd calls, then write_data(buf)
present_buf(addr, image, wd, ht) ==
    << CmdFrame(addr, COLUMN_ADDRESS),
       CmdFrame(addr, ColumnWindow(wd)[1]),
       CmdFrame(addr, ColumnWindow(wd)[2]),
       CmdFrame(addr, PAGE_ADDRESS),
       CmdFrame(addr, PageWindow(ht)[1]),
       CmdFrame(addr, PageWindow(ht)[2]),
       DataFrame(addr, image) >>

\* the writes of __init__: the command loop, clear_buffers(), present()
InitFrames(addr, wd, ht) ==
    [i \in 1..Len(InitCommands(wd, ht)) |-> CmdFrame(addr, InitCommands(wd, ht)[i])]
    \o present_buf(addr, Zeros(buffer_length(wd, ht)), wd, ht)

\* is_off_grid(xmin, ymin, xmax, ymax)
is_off_grid(xmin, ymin, xmax, ymax) ==
    \/ xmin < 0
    \/ ymin < 0
    \/ xmax >= width
    \/ ymax >= height

\* monoFB.pixel(x, y, c) on the MONO_VLSB frame: byte (y >> 3) * width + x, bit y & 7
SetPixel(image, x, y, c) ==
    LET i == (y \div 8) * width + x + 1
        b == image[i]
        k == y % 8
    IN  [image EXCEPT ![i] = IF c = 1 THEN OrBit(b, k, 1)
                             ELSE b - Bit(b, k) * Pow2(k)]

\* what is_off_grid prints: one line naming the first bound that is broken
OffGridMessage(xmin, ymin, xmax, ymax) ==
    IF xmin < 0 THEN <<"x-coordinate below minimum", xmin>>
    ELSE IF ymin < 0 THEN <<"y-coordinate below minimum", ymin>>
    ELSE IF xmax >= width THEN <<"x-coordinate above maximum", xmax>>
    ELSE <<"y-coordinate above maximum", ymax>>

\* draw_pixel(x, y, invert) on st = [image, printed], c = int(invert ^ 1)
draw_pixel(st, x, y, c) ==
    IF is_off_grid(x, y, x, y)
    THEN [image |-> st.image, printed |-> Append(st.printed, OffGridMessage(x, y, x, y))]
    ELSE [image |-> SetPixel(st.image, x, y, c), printed |-> st.printed]

\* number of non-zero bytes of the frame
LitBytes(image) == Cardinality({i \in 1..Len(image) : image[i] # 0})

\* coordinates offered to draw_pixel: the corners, a second page, one step off each edge
PixelXs == {-1, 0, width - 1, width}
PixelYs == {-1, 0, 9, height - 1, height}

---------------------------------------------------------------------------
(* The Display object: operations.                                         *)

\* Display(i2c, address, width, height)
Construct(a, wd, ht, failAt) ==
    /\ ~constructed
    /\ wire' = Transmit(InitFrames(a \div 2, wd, ht), failAt)
    /\ result' = Outcome(failAt)
    /\ lastOp' = "init"
    /\ opArgs' = <<>>
    /\ printed' = <<>>
    /\ constructed' = (failAt = 0)
    /\ IF failAt = 0
       THEN /\ address' = a \div 2
            /\ width' = wd
            /\ height' = ht
            /\ mono_image' = Zeros(buffer_length(wd, ht))
       ELSE UNCHANGED <<address, width, height, mono_image>>
    /\ UNCHANGED bvars

\* present()
Present(failAt) ==
    /\ constructed
    /\ wire' = Transmit(present_buf(address, mono_image, width, height), failAt)
    /\ result' = Outcome(failAt)
    /\ lastOp' = "present"
    /\ opArgs' = <<>>
    /\ printed' = <<>>
    /\ UNCHANGED <<constructed, address, width, height, mono_image, bvars>>

\* clear_buffers()
ClearBuffers ==
    /\ constructed
    /\ mono_image' = Zeros(Len(mono_image))
    /\ wire' = <<>>
    /\ result' = "ok"
    /\ lastOp' = "clear_buffers"
    /\ opArgs' = <<>>
    /\ printed' = <<>>
    /\ UNCHANGED <<constructed, address, width, height, bvars>>

\* clear(): clear_buffers(), then present()
Clear(failAt) ==
    /\ constructed
    /\ mono_image' = Zeros(Len(mono_image))
    /\ wire' = Transmit(present_buf(address, Zeros(Len(mono_image)), width, height), failAt)
    /\ result' = Outcome(failAt)
    /\ lastOp' = "clear"
    /\ opArgs' = <<>>
    /\ printed' = <<>>
    /\ UNCHANGED <<constructed, address, width, height, bvars>>

\* sleep()
Sleep(failAt) ==
    /\ constructed
    /\ wire' = Transmit(<<CmdFrame(address, DISPLAY_OFF)>>, failAt)
    /\ result' = Outcome(failAt)
    /\ lastOp' = "sleep"
    /\ opArgs' = <<>>
    /\ printed' = <<>>
    /\ UNCHANGED <<constructed, address, width, height, mono_image, bvars>>

\* wake()
Wake(failAt) ==
    /\ constructed
    /\ wire' = Transmit(<<CmdFrame(address, DISPLAY_ON)>>, failAt)
    /\ result' = Outcome(failAt)
    /\ lastOp' = "wake"
    /\ opArgs' = <<>>
    /\ printed' = <<>>
    /\ UNCHANGED <<constructed, address, width, height, mono_image, bvars>>

\* write_cmd(command, *args).  The command goes out as a command frame; a
\* non-empty args tuple is passed to write_data, is no bytearray, and
\* bytearray([0x40, args]) raises TypeError before anything is written.
WriteCmd(command, args, failAt) ==
    /\ constructed
    /\ wire' = Transmit(<<CmdFrame(address, command)>>, failAt)
    /\ result' = IF failAt # 0 THEN "TransportFailure"
                 ELSE IF Len(args) > 0 THEN "TypeError" ELSE "ok"
    /\ lastOp' = "write_cmd"
    /\ opArgs' = <<command>> \o args
    /\ printed' = <<>>
    /\ UNCHANGED <<constructed, address, width, height, mono_image, bvars>>

\* draw_pixel(x, y, invert)
DrawPixel(x, y, invert) ==
    LET st == draw_pixel([image |-> mono_image, printed |-> <<>>], x, y,
                         IF invert THEN 0 ELSE 1)
    IN  /\ constructed
        /\ mono_image' = st.image
        /\ printed' = st.printed
        /\ LitBytes(mono_image') <= MaxLit
        /\ wire' = <<>>
        /\ result' = "ok"
        /\ lastOp' = "draw_pixel"
        /\ opArgs' = <<x, y, IF invert THEN 1 ELSE 0>>
        /\ UNCHANGED <<constructed, address, width, height, bvars>>

\* no bitmap helper has run yet
NoCall == [name |-> "none", invert |-> FALSE, rotate |-> 0]

\* commands and argument tuples offered to write_cmd
CmdBytes == {CONTRAST_CONTROL, DISPLAY_OFF, INVERSION_OFF}
CmdArgs == {<<>>, <<255>>, <<0, 127>>}

Init ==
    /\ constructed = FALSE
    /\ address = 0
    /\ width = 0
    /\ height = 0
    /\ mono_image = <<>>
    /\ wire = <<>>
    /\ lastOp = "none"
    /\ opArgs = <<>>
    /\ printed = <<>>
    /\ result = "ok"
    /\ buf = <<>>
    /\ w = 0
    /\ h = 0
    /\ out = <<>>
    /\ new_w = 0
    /\ new_h = 0
    /\ lastCall = NoCall
    /\ loaded = [buf |-> <<>>, w |-> 0, h |-> 0]
    /\ reps = 0
    /\ raised = "none"

Next ==
    \/ \E a \in Addresses, wd \in DisplayWidths, ht \in DisplayHeights :
         \E failAt \in 0..Len(InitFrames(a \div 2, wd, ht)) : Construct(a, wd, ht, failAt)
    \/ \E failAt \in 0..Len(present_buf(address, mono_image, width, height)) :
         Present(failAt)
    \/ ClearBuffers
    \/ \E failAt \in 0..Len(present_buf(address, mono_image, width, height)) :
         Clear(failAt)
    \/ \E failAt \in 0..1 : Sleep(failAt)
    \/ \E failAt \in 0..1 : Wake(failAt)
    \/ \E command \in CmdBytes, args \in CmdArgs, failAt \in 0..1 :
         WriteCmd(command, args, failAt)
    \/ \E x \in PixelXs \cap 0..(width - 1), y \in PixelYs \cap 0..(height - 1),
            invert \in BOOLEAN : DrawPixel(x, y, invert)

Spec == Init /\ [][Next]_vars

---------------------------------------------------------------------------
(* Claims about the Display object, checked under Spec.                    *)

\* where the frames of present() start in wire: __init__ sends 25 commands first
PresentOffset == IF lastOp = "init" THEN 25 ELSE 0
RanPresent == lastOp \in {"init", "present", "clear"}

\* C1: a construction that returns has issued the documented initialization
\* commands in the documented order, each once and each as a command frame
\* (no data transfer among them), and after the last of them one present of an
\* all-zero frame: the six window commands, then the only data transfer.
C1_InitSequenceInOrder ==
    (lastOp = "init" /\ result = "ok") =>
        LET doc == << 174,                       \* display off
                      213, 128,                  \* clock divider 0x80
                      168, height - 1,           \* multiplex ratio
                      211, 0,                    \* display offset 0
                      64,                        \* start line
                      141, 20,                   \* charge pump 0x14
                      32, 0,                     \* addressing mode 0x00
                      161,                       \* segment remap
                      200,                       \* COM output direction
                      218, IF height \in {16, 32} /\ width # 64 THEN 2 ELSE 18,
                      129, 255,                  \* contrast 0xFF
                      217, 241,                  \* precharge
                      219, 64,                   \* VCOM
                      164,                       \* entire display on
                      166,                       \* inversion off
                      175 >>                     \* display on
        IN  /\ Len(wire) = Len(doc) + 7
            /\ \A i \in 1..Len(doc) : wire[i].bytes = <<128, doc[i]>>
            /\ \A i \in (Len(doc) + 1)..(Len(doc) + 6) :
                   Len(wire[i].bytes) = 2 /\ wire[i].bytes[1] = 128
            /\ wire[Len(doc) + 1].bytes[2] = 33
            /\ wire[Len(doc) + 4].bytes[2] = 34
            /\ LET data == wire[Len(doc) + 7].bytes
               IN  /\ data[1] = 64
                   /\ Len(data) = 1 + Len(mono_image)
                   /\ \A k \in 2..Len(data) : data[k] = 0
            /\ \A i \in 1..Len(wire) : wire[i].ok

\* C1 witness: a 128x32 panel was constructed (COM pins configuration 0x02)
C1_Witness ==
    /\ lastOp = "init" /\ result = "ok"
    /\ width = 128 /\ height = 32
    /\ wire[16].bytes = <<128, 2>>
    /\ Len(wire) = 32

\* C2: every present() sends, in this order and with nothing in between, the
\* column-address command, column begin, column end, the page-address
\* command, page begin 0, page end height/8 - 1, and then one data transfer
\* carrying the whole frame buffer; a data transfer is never handed to the
\* transport before the six window frames of that call.
C2_PresentWindowThenData ==
    RanPresent =>
        LET off == PresentOffset
            n == Len(wire) - off
        IN  /\ n <= 7
            /\ result = "ok" => n = 7
            /\ \A i \in 1..Len(wire) : wire[i].bytes[1] = 64 => i = off + 7
            /\ \A i \in (off + 1)..Len(wire) :
                   i <= off + 6 => Len(wire[i].bytes) = 2 /\ wire[i].bytes[1] = 128
            /\ n >= 1 => wire[off + 1].bytes[2] = 33
            /\ n >= 4 => wire[off + 4].bytes[2] = 34
            /\ (n >= 5 /\ constructed) => wire[off + 5].bytes[2] = 0
            /\ (n >= 6 /\ constructed) => wire[off + 6].bytes[2] = (height \div 8) - 1
            /\ (n = 7 /\ constructed) => wire[off + 7].bytes = <<64>> \o mono_image

\* C2 witness: present() of a frame with a lit pixel went through
C2_Witness ==
    /\ lastOp = "present" /\ result = "ok"
    /\ Len(wire) = 7
    /\ \E k \in 1..Len(mono_image) : mono_image[k] # 0

\* C3: present() sends column begin 32 and column end width-1+32 when the
\* width is 64, and 0 and width-1 for every other width; the page range is
\* 0 .. height/8 - 1, never shifted.
C3_ColumnOffsetOnlyWidth64 ==
    (RanPresent /\ constructed) =>
        LET off == PresentOffset
            n == Len(wire) - off
        IN  /\ n >= 2 => wire[off + 2].bytes = <<128, IF width = 64 THEN 32 ELSE 0>>
            /\ n >= 3 => wire[off + 3].bytes =
                            <<128, IF width = 64 THEN width - 1 + 32 ELSE width - 1>>
            /\ n >= 5 => wire[off + 5].bytes = <<128, 0>>
            /\ n >= 6 => wire[off + 6].bytes = <<128, (height \div 8) - 1>>

\* C3 witness: a 64 column panel was presented with the shifted window
C3_Witness ==
    /\ lastOp = "present" /\ result = "ok"
    /\ width = 64
    /\ wire[2].bytes = <<128, 32>>
    /\ wire[3].bytes = <<128, 95>>

\* C4: every write goes to the 7-bit device address as a command frame
\* (0x80, one byte) or a data frame (0x40, payload), and write_cmd(command,
\* *args) sends the command and then each argument byte as a command frame of
\* its own.
C4_ArgsSentAsCommandFrames ==
    /\ \A i \in 1..Len(wire) :
           /\ wire[i].addr \in 0..127
           /\ \/ Len(wire[i].bytes) = 2 /\ wire[i].bytes[1] = 128
              \/ wire[i].bytes[1] = 64
    /\ (lastOp = "write_cmd" /\ result # "TransportFailure") =>
           /\ result = "ok"
           /\ Len(wire) = Len(opArgs)
           /\ \A i \in 1..Len(wire) : wire[i].bytes = <<128, opArgs[i]>>

\* number of i2c.writeto calls an operation makes when none fails
WritesOf(op) ==
    CASE op = "init" -> 32
      [] op \in {"present", "clear"} -> 7
      [] op \in {"sleep", "wake", "write_cmd"} -> 1
      [] OTHER -> 0

\* C5: a refused transport write ends the operation: the caller gets the
\* failure (and no Display from a failed construction), the refused write is
\* the last one handed to the transport, and no operation hands over more
\* frames than it has writes; without a refusal the operation ends normally.
C5_FailurePropagatesNoRetry ==
    /\ \A i \in 1..Len(wire) : ~wire[i].ok => i = Len(wire)
    /\ (result = "TransportFailure") <=> (\E i \in 1..Len(wire) : ~wire[i].ok)
    /\ Len(wire) <= WritesOf(lastOp)
    /\ (lastOp = "init" /\ result = "TransportFailure") => ~constructed
    /\ (\A i \in 1..Len(wire) : wire[i].ok) =>
           (Len(wire) = WritesOf(lastOp) \/ result = "TypeError")

\* C5 witness: present() was refused at its third write, after two window frames
C5_Witness ==
    /\ lastOp = "present" /\ result = "TransportFailure"
    /\ Len(wire) = 3
    /\ wire[1].ok /\ wire[2].ok /\ ~wire[3].ok

---------------------------------------------------------------------------
(* Bitmap helpers.  A row-major (MONO_HMSB) bitmap of w x h pixels has     *)
(* get_byte_size(w) bytes per row; pixel (x, y) is bit x & 7 of byte       *)
(* y * get_byte_size(w) + (x >> 3).                                        *)

\* buf[idx] ^= 0xFF for every byte
InvertBytes(b) == [i \in 1..Len(b) |-> 255 - b[i]]

\* the inner loop of the 180 degree branch: the byte with its bit order reversed
ReverseBits(cur_byte) ==
    Bit(cur_byte, 0) * 128 + Bit(cur_byte, 1) * 64 + Bit(cur_byte, 2) * 32
    + Bit(cur_byte, 3) * 16 + Bit(cur_byte, 4) * 8 + Bit(cur_byte, 5) * 4
    + Bit(cur_byte, 6) * 2 + Bit(cur_byte, 7)

\* rotate == 180: buf2[buf_len - 1 - idx] = reversed buf[idx]
Rotate180(b) == [i \in 1..Len(b) |-> ReverseBits(b[Len(b) + 1 - i])]

\* the rotate == 90 loop body with the bit assigned to its byte, not OR-ed into it
Rotate90StepAssign(b, wd, ht, x1, y1, buf2) ==
    LET y2 == x1
        x2 == (ht - 1) - y1
        src_idx == (y1 * get_byte_size(wd)) + (x1 \div 8)
        src_bit == x1 % 8
        dst_idx == (y2 * get_byte_size(ht)) + (x2 \div 8)
        dst_bit == x2 % 8
    IN  [buf2 EXCEPT ![dst_idx + 1] = Bit(b[src_idx + 1], src_bit) * Pow2(dst_bit)]

\* the body of the rotate == 90 loop for source pixel (x1, y1)
Rotate90Step(b, wd, ht, x1, y1, buf2) ==
    LET y2 == x1
        x2 == (ht - 1) - y1
        src_idx == (y1 * get_byte_size(wd)) + (x1 \div 8)
        src_bit == x1 % 8
        dst_idx == (y2 * get_byte_size(ht)) + (x2 \div 8)
        dst_bit == x2 % 8
    IN  [buf2 EXCEPT ![dst_idx + 1] = OrBit(@, dst_bit, Bit(b[src_idx + 1], src_bit))]

\* for x1 in range(w): ...   (row y1, from column x1 on; a buffer of no bytes
\* has no pixel to visit, here and in the loops below)
RECURSIVE Rotate90Row(_, _, _, _, _, _)
Rotate90Row(b, wd, ht, x1, y1, buf2) ==
    IF x1 >= wd \/ Len(buf2) = 0 THEN buf2
    ELSE Rotate90Row(b, wd, ht, x1 + 1, y1, Rotate90Step(b, wd, ht, x1, y1, buf2))

\* for y1 in range(h): ...   (from row y1 on)
RECURSIVE Rotate90Loop(_, _, _, _, _)
Rotate90Loop(b, wd, ht, y1, buf2) ==
    IF y1 >= ht \/ Len(buf2) = 0 THEN buf2
    ELSE Rotate90Loop(b, wd, ht, y1 + 1, Rotate90Row(b, wd, ht, 0, y1, buf2))

\* the rotate == 270 loop body turning the same way as rotate == 90
Rotate270StepAs90(b, wd, ht, x1, y1, buf2) ==
    LET y2 == x1
        x2 == (ht - 1) - y1
        src_idx == (y1 * get_byte_size(wd)) + (x1 \div 8)
        src_bit == x1 % 8
        dst_idx == (y2 * get_byte_size(ht)) + (x2 \div 8)
        dst_bit == x2 % 8
    IN  [buf2 EXCEPT ![dst_idx + 1] = OrBit(@, dst_bit, Bit(b[src_idx + 1], src_bit))]

\* the body of the rotate == 270 loop for source pixel (x1, y1)
Rotate270Step(b, wd, ht, x1, y1, buf2) ==
    LET y2 == (wd - 1) - x1
        x2 == y1
        src_idx == (y1 * get_byte_size(wd)) + (x1 \div 8)
        src_bit == x1 % 8
        dst_idx == (y2 * get_byte_size(ht)) + (x2 \div 8)
        dst_bit == x2 % 8
    IN  [buf2 EXCEPT ![dst_idx + 1] = OrBit(@, dst_bit, Bit(b[src_idx + 1], src_bit))]

RECURSIVE Rotate270Row(_, _, _, _, _, _)
Rotate270Row(b, wd, ht, x1, y1, buf2) ==
    IF x1 >= wd \/ Len(buf2) = 0 THEN buf2
    ELSE Rotate270Row(b, wd, ht, x1 + 1, y1, Rotate270Step(b, wd, ht, x1, y1, buf2))

RECURSIVE Rotate270Loop(_, _, _, _, _)
Rotate270Loop(b, wd, ht, y1, buf2) ==
    IF y1 >= ht \/ Len(buf2) = 0 THEN buf2
    ELSE Rotate270Loop(b, wd, ht, y1 + 1, Rotate270Row(b, wd, ht, 0, y1, buf2))

\* xform_buf(buf, w, h, invert, rotate): buf is the caller's bytearray after the
\* call (inverted in place when invert), out what is returned with new_w, new_h.
\* With rotate not in {90, 180, 270} the bytearray passed in is returned.
xform_buf(b, wd, ht, invert, rotate) ==
    LET b1 == IF invert THEN InvertBytes(b) ELSE b
        w_bytes == get_byte_size(wd)
        h_bytes == get_byte_size(ht)
    IN  CASE rotate = 180 ->
               [buf |-> b1, out |-> Rotate180(b1), new_w |-> wd, new_h |-> ht]
          [] rotate = 90 ->
               [buf |-> b1, out |-> Rotate90Loop(b1, wd, ht, 0, Zeros(h_bytes * wd)),
                new_w |-> ht, new_h |-> wd]
          [] rotate = 270 ->
               [buf |-> b1, out |-> Rotate270Loop(b1, wd, ht, 0, Zeros(h_bytes * wd)),
                new_w |-> ht, new_h |-> wd]
          [] OTHER ->
               [buf |-> b1, out |-> b1, new_w |-> wd, new_h |-> ht]

\* the body of the mirror_horizontal loop for row y1 and left column x1:
\* the left pixel goes to the right, then the right pixel to the left
MirrorStep(b, wd, x1, y1, buf2) ==
    LET x2 == (wd - 1) - x1
        y2 == y1
        src_idx == (y1 * get_byte_size(wd)) + (x1 \div 8)
        src_bit == x1 % 8
        dst_idx == (y2 * get_byte_size(wd)) + (x2 \div 8)
        dst_bit == x2 % 8
        left == [buf2 EXCEPT ![dst_idx + 1] = OrBit(@, dst_bit, Bit(b[src_idx + 1], src_bit))]
    IN  [left EXCEPT ![src_idx + 1] = OrBit(@, src_bit, Bit(b[dst_idx + 1], dst_bit))]

\* for x1 in range(w // 2): ...   (row y1, from column x1 on)
RECURSIVE MirrorRow(_, _, _, _, _)
MirrorRow(b, wd, x1, y1, buf2) ==
    IF x1 >= wd \div 2 \/ Len(buf2) = 0 THEN buf2
    ELSE MirrorRow(b, wd, x1 + 1, y1, MirrorStep(b, wd, x1, y1, buf2))

\* for y1 in range(h): ...   (from row y1 on)
RECURSIVE MirrorLoop(_, _, _, _, _)
MirrorLoop(b, wd, ht, y1, buf2) ==
    IF y1 >= ht \/ Len(buf2) = 0 THEN buf2
    ELSE MirrorLoop(b, wd, ht, y1 + 1, MirrorRow(b, wd, 0, y1, buf2))

\* mirror_horizontal(buf, w, h): a new bytearray of w_bytes * h bytes
mirror_horizontal(b, wd, ht) ==
    MirrorLoop(b, wd, ht, 0, Zeros(get_byte_size(wd) * ht))

\* the buf_hmsb_to_vlsb loop body with the page stride taken in bytes of a row
HmsbToVlsbStepByteStride(b, wd, x1, y1, buf2) ==
    LET page == y1 \div 8
        src_idx == (y1 * get_byte_size(wd)) + (x1 \div 8)
        src_bit == x1 % 8
        dst_idx == (page * get_byte_size(wd)) + x1
        dst_bit == y1 % 8
    IN  [buf2 EXCEPT ![dst_idx + 1] = OrBit(@, dst_bit, Bit(b[src_idx + 1], src_bit))]

\* the body of the buf_hmsb_to_vlsb loop for source pixel (x1, y1)
HmsbToVlsbStep(b, wd, x1, y1, buf2) ==
    LET page == y1 \div 8
        src_idx == (y1 * get_byte_size(wd)) + (x1 \div 8)
        src_bit == x1 % 8
        dst_idx == (page * wd) + x1
        dst_bit == y1 % 8
    IN  [buf2 EXCEPT ![dst_idx + 1] = OrBit(@, dst_bit, Bit(b[src_idx + 1], src_bit))]

RECURSIVE HmsbToVlsbRow(_, _, _, _, _)
HmsbToVlsbRow(b, wd, x1, y1, buf2) ==
    IF x1 >= wd \/ Len(buf2) = 0 THEN buf2
    ELSE HmsbToVlsbRow(b, wd, x1 + 1, y1, HmsbToVlsbStep(b, wd, x1, y1, buf2))

RECURSIVE HmsbToVlsbLoop(_, _, _, _, _)
HmsbToVlsbLoop(b, wd, ht, y1, buf2) ==
    IF y1 >= ht \/ Len(buf2) = 0 THEN buf2
    ELSE HmsbToVlsbLoop(b, wd, ht, y1 + 1, HmsbToVlsbRow(b, wd, 0, y1, buf2))

\* buf_hmsb_to_vlsb(buf, w, h): a new bytearray of h_bytes * w bytes
buf_hmsb_to_vlsb(b, wd, ht) ==
    HmsbToVlsbLoop(b, wd, ht, 0, Zeros(get_byte_size(ht) * wd))

\* File contents offered to load_buf: n bytes, all clear (s = 0), all set
\* (s = 1), or a fixed irregular pattern per s.
Pattern(n, s) ==
    [i \in 1..n |-> CASE s = 0 -> 0
                      [] s = 1 -> 255
                      [] OTHER -> (i * i * 7 + i * s * 29 + s * 53) % 251]

\* rotate values offered to xform_buf
Rotations == {0, 90, 180, 270}

---------------------------------------------------------------------------
(* Bitmap helpers: operations.  A helper is called on the bitmap load_buf  *)
(* returned, or again on the bitmap its previous call returned.            *)

\* load_buf(path, w, h): get_byte_size(w) * h bytes read from the file
LoadBuf(wd, ht, s) ==
    /\ buf' = Pattern(get_byte_size(wd) * ht, s)
    /\ w' = wd
    /\ h' = ht
    /\ out' = buf'
    /\ new_w' = wd
    /\ new_h' = ht
    /\ loaded' = [buf |-> buf', w |-> wd, h |-> ht]
    /\ lastCall' = [name |-> "load_buf", invert |-> FALSE, rotate |-> 0]
    /\ reps' = 0
    /\ raised' = "none"
    /\ UNCHANGED dvars

\* the call may be made: first on a loaded bitmap, then on its own result
MayCall(call) ==
    /\ lastCall.name # "none"
    /\ \/ reps = 0
       \/ lastCall = call /\ reps < MaxReps

\* buf, new_w, new_h = xform_buf(buf, w, h, invert, rotate)
XformBuf(invert, rotate) ==
    LET call == [name |-> "xform_buf", invert |-> invert, rotate |-> rotate]
        r == xform_buf(out, new_w, new_h, invert, rotate)
    IN  /\ MayCall(call)
        /\ buf' = r.buf
        /\ w' = new_w
        /\ h' = new_h
        /\ out' = r.out
        /\ new_w' = r.new_w
        /\ new_h' = r.new_h
        /\ lastCall' = call
        /\ reps' = reps + 1
        /\ raised' = "none"
        /\ UNCHANGED <<loaded, dvars>>

\* buf2 = mirror_horizontal(buf, w, h)
MirrorHorizontal ==
    LET call == [name |-> "mirror_horizontal", invert |-> FALSE, rotate |-> 0]
    IN  /\ MayCall(call)
        /\ buf' = out
        /\ w' = new_w
        /\ h' = new_h
        /\ out' = mirror_horizontal(out, new_w, new_h)
        /\ UNCHANGED <<new_w, new_h>>
        /\ lastCall' = call
        /\ reps' = reps + 1
        /\ raised' = "none"
        /\ UNCHANGED <<loaded, dvars>>

\* buf2 = buf_hmsb_to_vlsb(buf, w, h), called on a row-major bitmap only
BufHmsbToVlsb ==
    LET call == [name |-> "buf_hmsb_to_vlsb", invert |-> FALSE, rotate |-> 0]
    IN  /\ MayCall(call)
        /\ reps = 0
        /\ buf' = out
        /\ w' = new_w
        /\ h' = new_h
        /\ out' = buf_hmsb_to_vlsb(out, new_w, new_h)
        /\ UNCHANGED <<new_w, new_h>>
        /\ lastCall' = call
        /\ reps' = reps + 1
        /\ raised' = "none"
        /\ UNCHANGED <<loaded, dvars>>

NextBuf ==
    \/ \E wd \in 0..MaxW, ht \in 0..MaxH, s \in 0..MaxSeed : LoadBuf(wd, ht, s)
    \/ \E invert \in BOOLEAN, rotate \in Rotations : XformBuf(invert, rotate)
    \/ MirrorHorizontal
    \/ BufHmsbToVlsb

SpecBuf == Init /\ [][NextBuf]_vars

---------------------------------------------------------------------------
(* Claims about the bitmap helpers, checked under SpecBuf.                 *)

\* pixel (x, y) of a row-major bitmap wd pixels wide
HmsbPixel(b, wd, x, y) == Bit(b[y * ((wd + 7) \div 8) + (x \div 8) + 1], x % 8)

\* every bit of a row-major bitmap that is no pixel (bit positions >= wd of a row) is 0
PaddingClear(b, wd, ht) ==
    \A y \in 0..(ht - 1) : \A x \in wd..(8 * ((wd + 7) \div 8) - 1) :
        HmsbPixel(b, wd, x, y) = 0

\* the last call was xform_buf(.., invert=False, rotate=r)
Rotated(r) == lastCall = [name |-> "xform_buf", invert |-> FALSE, rotate |-> r]

\* C6 as stated: four successive xform_buf(rotate=90) calls on a loaded
\* bitmap return the original dimensions and the original bytes.
C6_FourRotationsBitForBit ==
    (Rotated(90) /\ reps = 4) =>
        /\ new_w = loaded.w
        /\ new_h = loaded.h
        /\ out = loaded.buf

\* C6 amended: four successive xform_buf(rotate=90) calls return the original
\* dimensions and a buffer of the original length that equals the original
\* on every pixel; its padding bits are 0, so it is the original bit for bit
\* exactly when the original's padding bits are 0.
C6_FourRotationsPixelForPixel ==
    (Rotated(90) /\ reps = 4) =>
        /\ new_w = loaded.w
        /\ new_h = loaded.h
        /\ Len(out) = Len(loaded.buf)
        /\ \A y \in 0..(loaded.h - 1) : \A x \in 0..(loaded.w - 1) :
               HmsbPixel(out, new_w, x, y) = HmsbPixel(loaded.buf, loaded.w, x, y)
        /\ PaddingClear(out, new_w, new_h)
        /\ (out = loaded.buf) <=> PaddingClear(loaded.buf, loaded.w, loaded.h)

\* C6 witness: a 9x2 bitmap with lit pixels and set padding bits was rotated four times
C6_Witness ==
    /\ Rotated(90) /\ reps = 4
    /\ loaded.w = 9 /\ loaded.h = 2
    /\ \E y \in 0..1 : \E x \in 0..8 : HmsbPixel(loaded.buf, 9, x, y) = 1
    /\ \E y \in 0..1 : \E x \in 0..8 : HmsbPixel(loaded.buf, 9, x, y) = 0
    /\ ~PaddingClear(loaded.buf, 9, 2)

\* C7: xform_buf(rotate=90) returns dimensions (h, w) and puts source pixel
\* (x1, y1) at ((h-1)-y1, x1); xform_buf(rotate=270) puts it at
\* (y1, (w-1)-x1); the result has get_byte_size(h) * w bytes and every bit of
\* it that is no image of a source pixel is 0.
C7_RotationPixelMap ==
    ((Rotated(90) \/ Rotated(270)) /\ reps >= 1) =>
        /\ new_w = h
        /\ new_h = w
        /\ Len(out) = ((h + 7) \div 8) * w
        /\ \A y1 \in 0..(h - 1) : \A x1 \in 0..(w - 1) :
               HmsbPixel(buf, w, x1, y1) =
                   IF lastCall.rotate = 90
                   THEN HmsbPixel(out, new_w, (h - 1) - y1, x1)
                   ELSE HmsbPixel(out, new_w, y1, (w - 1) - x1)
        /\ PaddingClear(out, new_w, new_h)

\* C7 witness: a 9x3 bitmap with lit and dark pixels was rotated by 270 degrees
C7_Witness ==
    /\ Rotated(270) /\ reps = 1
    /\ w = 9 /\ h = 3
    /\ \E y \in 0..2 : \E x \in 0..8 : HmsbPixel(buf, 9, x, y) = 1
    /\ \E y \in 0..2 : \E x \in 0..8 : HmsbPixel(buf, 9, x, y) = 0

Mirrored == lastCall.name = "mirror_horizontal"

\* C8: mirror_horizontal applied twice gives the bitmap back, for every
\* width and height.  (Stated on the pixels only: equality of the bytes,
\* which the claim asks for, implies it.)
C8_MirrorTwiceIsIdentity ==
    (Mirrored /\ reps = 2) =>
        /\ Len(out) = Len(loaded.buf)
        /\ \A y \in 0..(loaded.h - 1) : \A x \in 0..(loaded.w - 1) :
               HmsbPixel(out, new_w, x, y) = HmsbPixel(loaded.buf, loaded.w, x, y)

\* C9: mirror_horizontal returns a new buffer whose pixel (x, y) is pixel
\* ((w-1)-x, y) of the input, for every column x in [0, w) (the centre column
\* of an odd width included), and leaves the input as it was.
C9_MirrorPixelMap ==
    (Mirrored /\ reps = 1) =>
        /\ buf = loaded.buf
        /\ Len(out) = ((w + 7) \div 8) * h
        /\ \A y \in 0..(h - 1) : \A x \in 0..(w - 1) :
               HmsbPixel(out, w, x, y) = HmsbPixel(buf, w, (w - 1) - x, y)

\* the inverse re-layout: the row-major bitmap whose pixel (x, y) is bit
\* y mod 8 of page-major byte (y div 8) * wd + x, padding bits 0
InverseRelayout(v, wd, ht) ==
    [i \in 1..(((wd + 7) \div 8) * ht) |->
        LET y == (i - 1) \div ((wd + 7) \div 8)
            x0 == 8 * ((i - 1) % ((wd + 7) \div 8))
            px(k) == IF x0 + k < wd THEN Bit(v[(y \div 8) * wd + x0 + k + 1], y % 8) ELSE 0
        IN  px(0) + 2 * px(1) + 4 * px(2) + 8 * px(3)
            + 16 * px(4) + 32 * px(5) + 64 * px(6) + 128 * px(7)]

\* C10: buf_hmsb_to_vlsb returns get_byte_size(h) * w bytes with source pixel
\* (x, y) (row-major byte y*ceil(w/8) + x div 8, bit x mod 8) at byte
\* (y div 8)*w + x, bit y mod 8; the inverse re-layout of its result has every
\* pixel of the original, and is the original when its padding bits are 0.
C10_RelayoutRoundTrip ==
    (lastCall.name = "buf_hmsb_to_vlsb") =>
        /\ Len(out) = ((h + 7) \div 8) * w
        /\ \A y \in 0..(h - 1) : \A x \in 0..(w - 1) :
               Bit(out[(y \div 8) * w + x + 1], y % 8)
                   = Bit(buf[y * ((w + 7) \div 8) + (x \div 8) + 1], x % 8)
        /\ \A y \in 0..(h - 1) : \A x \in 0..(w - 1) :
               HmsbPixel(InverseRelayout(out, w, h), w, x, y) = HmsbPixel(buf, w, x, y)
        /\ PaddingClear(buf, w, h) => InverseRelayout(out, w, h) = buf

\* C10 witness: a 9x9 bitmap (two bytes per row, two pages) with a lit pixel
\* in its ninth row and ninth column was re-laid out
C10_Witness ==
    /\ lastCall.name = "buf_hmsb_to_vlsb"
    /\ w = 9 /\ h = 9
    /\ \E x \in 0..8 : HmsbPixel(buf, 9, x, 8) = 1 /\ Bit(out[9 + x + 1], 0) = 1
    /\ \E y \in 0..8 : HmsbPixel(buf, 9, 8, y) = 1 /\ Bit(out[(y \div 8) * 9 + 8 + 1], y % 8) = 1
    /\ \E y \in 0..8 : \E x \in 0..8 : HmsbPixel(buf, 9, x, y) = 0

\* the names of the three helpers that take a bitmap's width and height
Helpers == {"xform_buf", "mirror_horizontal", "buf_hmsb_to_vlsb"}

\* C11: xform_buf, mirror_horizontal and buf_hmsb_to_vlsb reject a width or a
\* height of 0: a call with such a dimension ends in an error and hands back
\* no buffer.
C11_ZeroDimensionRejected ==
    (lastCall.name \in Helpers /\ (w = 0 \/ h = 0)) => raised # "none"

---------------------------------------------------------------------------
(* Drawing primitives.  Each works on st = [image, printed]: the bytes of  *)
(* the frame and the lines printed so far.  c is the colour int(invert ^ 1).*)
(* monoFB is the platform's FrameBuffer over mono_image (MONO_VLSB); its    *)
(* fill_rect, hline, vline, rect and blit clip to the canvas.               *)

\* a byte from its eight bits
ByteOf(bits) ==
    bits[0] + 2 * bits[1] + 4 * bits[2] + 8 * bits[3] +
    16 * bits[4] + 32 * bits[5] + 64 * bits[6] + 128 * bits[7]

\* pixel (x, y) of the frame, as monoFB.pixel(x, y) reads it
FramePixel(image, x, y) == Bit(image[(y \div 8) * width + x + 1], y % 8)

\* monoFB.fill_rect(x, y, rw, rh, c): every pixel of the rectangle that is on the canvas
FbFillRect(image, x, y, rw, rh, c) ==
    [i \in 1..Len(image) |->
        LET px == (i - 1) % width
            page == (i - 1) \div width
        IN  IF px < x \/ px >= x + rw THEN image[i]
            ELSE ByteOf([k \in 0..7 |->
                     LET py == page * 8 + k
                     IN  IF py >= y /\ py < y + rh /\ py < height THEN c
                         ELSE Bit(image[i], k)])]

\* monoFB.rect(x, y, rw, rh, c): the four sides of the outline
FbRect(image, x, y, rw, rh, c) ==
    FbFillRect(FbFillRect(FbFillRect(FbFillRect(image, x, y, rw, 1, c),
                                     x, y + rh - 1, rw, 1, c),
                          x, y, 1, rh, c),
               x + rw - 1, y, 1, rh, c)

\* monoFB.blit(fbuf, x, y): every pixel of the row-major sprite fbuf = [buf, w, h]
\* copied to (x + sx, y + sy) where that is on the canvas
FbBlit(image, fbuf, x, y) ==
    [i \in 1..Len(image) |->
        LET px == (i - 1) % width
            page == (i - 1) \div width
        IN  IF px < x \/ px >= x + fbuf.w THEN image[i]
            ELSE ByteOf([k \in 0..7 |->
                     LET py == page * 8 + k
                     IN  IF py >= y /\ py < y + fbuf.h /\ py < height
                         THEN HmsbPixel(fbuf.buf, fbuf.w, px - x, py - y)
                         ELSE Bit(image[i], k)])]

\* is_off_grid(...) returned True: its line is printed and the frame is kept
Rejected(st, xmin, ymin, xmax, ymax) ==
    [image |-> st.image,
     printed |-> Append(st.printed, OffGridMessage(xmin, ymin, xmax, ymax))]

\* draw_hline(x, y, lw, invert)
draw_hline(st, x, y, lw, c) ==
    IF is_off_grid(x, y, x + lw - 1, y) THEN Rejected(st, x, y, x + lw - 1, y)
    ELSE [image |-> FbFillRect(st.image, x, y, lw, 1, c), printed |-> st.printed]

\* draw_vline(x, y, lh, invert): the check is made with ymax = y + lh
draw_vline(st, x, y, lh, c) ==
    IF is_off_grid(x, y, x, y + lh) THEN Rejected(st, x, y, x, y + lh)
    ELSE [image |-> FbFillRect(st.image, x, y, 1, lh, c), printed |-> st.printed]

\* draw_line(x1, y1, x2, y2, invert) for two points sharing a row or a column
\* (any other line is handed to monoFB.line, the platform's Bresenham)
draw_line(st, x1, y1, x2, y2, c) ==
    IF y1 = y2
    THEN LET xa == IF x1 > x2 THEN x2 ELSE x1
             xb == IF x1 > x2 THEN x1 ELSE x2
         IN  draw_hline(st, xa, y1, xb - xa + 1, c)
    ELSE LET ya == IF y1 > y2 THEN y2 ELSE y1
             yb == IF y1 > y2 THEN y1 ELSE y2
         IN  draw_vline(st, x1, ya, yb - ya + 1, c)

\* draw_lines(coords, invert): the loop from segment i on, (x1, y1) = coords[i - 1]
RECURSIVE LinesLoop(_, _, _, _)
LinesLoop(st, coords, i, c) ==
    IF i > Len(coords) THEN st
    ELSE LinesLoop(draw_line(st, coords[i - 1][1], coords[i - 1][2],
                             coords[i][1], coords[i][2], c),
                   coords, i + 1, c)

draw_lines(st, coords, c) == LinesLoop(st, coords, 2, c)

\* draw_rectangle(x, y, rw, rh, invert): no bounds check, monoFB.rect clips
draw_rectangle(st, x, y, rw, rh, c) ==
    [image |-> FbRect(st.image, x, y, rw, rh, c), printed |-> st.printed]

\* draw_sprite without its bounds check: monoFB.blit clips the sprite
draw_sprite_blit_only(st, fbuf, x, y, sw, sh) ==
    [image |-> FbBlit(st.image, fbuf, x, y), printed |-> st.printed]

\* draw_sprite(fbuf, x, y, sw, sh)
draw_sprite(st, fbuf, x, y, sw, sh) ==
    LET x2 == x + sw - 1
        y2 == y + sh - 1
    IN  IF is_off_grid(x, y, x2, y2) THEN Rejected(st, x, y, x2, y2)
        ELSE [image |-> FbBlit(st.image, fbuf, x, y), printed |-> st.printed]

\* draw_pixel for each point of pts, in order
RECURSIVE PlotAll(_, _, _)
PlotAll(st, pts, c) ==
    IF pts = <<>> THEN st
    ELSE PlotAll(draw_pixel(st, Head(pts)[1], Head(pts)[2], c), Tail(pts), c)

\* the four pixels draw_circle plots before its loop
CircleStart(x0, y0, r) ==
    << <<x0, y0 + r>>, <<x0, y0 - r>>, <<x0 + r, y0>>, <<x0 - r, y0>> >>

\* the pixels of one loop step with the last reflection left out
CirclePointsOneMissing(x0, y0, x, y) ==
    << <<x0 + x, y0 + y>>, <<x0 - x, y0 + y>>, <<x0 + x, y0 - y>>, <<x0 - x, y0 - y>>,
       <<x0 + y, y0 + x>>, <<x0 - y, y0 + x>>, <<x0 + y, y0 - x>> >>

\* the eight pixels draw_circle plots in one loop step
CirclePoints(x0, y0, x, y) ==
    << <<x0 + x, y0 + y>>, <<x0 - x, y0 + y>>, <<x0 + x, y0 - y>>, <<x0 - x, y0 - y>>,
       <<x0 + y, y0 + x>>, <<x0 - y, y0 + x>>, <<x0 + y, y0 - x>>, <<x0 - y, y0 - x>> >>

\* the while loop of draw_circle
RECURSIVE CircleLoop(_, _, _, _, _, _, _, _, _)
CircleLoop(st, x0, y0, f, dx, dy, x, y, c) ==
    IF ~(x < y) THEN st
    ELSE LET y_2 == IF f >= 0 THEN y - 1 ELSE y
             dy_2 == IF f >= 0 THEN dy + 2 ELSE dy
             f_1 == IF f >= 0 THEN f + dy_2 ELSE f
             x_2 == x + 1
             dx_2 == dx + 2
             f_2 == f_1 + dx_2
         IN  CircleLoop(PlotAll(st, CirclePoints(x0, y0, x_2, y_2), c),
                        x0, y0, f_2, dx_2, dy_2, x_2, y_2, c)

\* draw_circle(x0, y0, r, invert)
draw_circle(st, x0, y0, r, c) ==
    CircleLoop(PlotAll(st, CircleStart(x0, y0, r), c),
               x0, y0, 1 - r, 1, -r - r, 0, r, c)

\* the four draw_vline calls of one loop step of fill_circle
FillStep(st, x0, y0, x, y, c) ==
    draw_vline(draw_vline(draw_vline(draw_vline(st,
                   x0 + x, y0 - y, 2 * y + 1, c),
                   x0 - x, y0 - y, 2 * y + 1, c),
                   x0 - y, y0 - x, 2 * x + 1, c),
                   x0 + y, y0 - x, 2 * x + 1, c)

\* the while loop of fill_circle
RECURSIVE FillLoop(_, _, _, _, _, _, _, _, _)
FillLoop(st, x0, y0, f, dx, dy, x, y, c) ==
    IF ~(x < y) THEN st
    ELSE LET y_2 == IF f >= 0 THEN y - 1 ELSE y
             dy_2 == IF f >= 0 THEN dy + 2 ELSE dy
             f_1 == IF f >= 0 THEN f + dy_2 ELSE f
             x_2 == x + 1
             dx_2 == dx + 2
             f_2 == f_1 + dx_2
         IN  FillLoop(FillStep(st, x0, y0, x_2, y_2, c),
                      x0, y0, f_2, dx_2, dy_2, x_2, y_2, c)

\* fill_circle(x0, y0, r, invert)
fill_circle(st, x0, y0, r, c) ==
    FillLoop(draw_vline(st, x0, y0 - r, 2 * r + 1, c),
             x0, y0, 1 - r, 1, -r - r, 0, r, c)

---------------------------------------------------------------------------
(* Drawing primitives: operations.                                         *)

\* the frame and the output a drawing call starts from
Before == [image |-> mono_image, printed |-> <<>>]

\* colour written for invert: int(invert ^ 1)
Colour(invert) == IF invert THEN 0 ELSE 1

\* invert as recorded in opArgs: int(invert)
Flag(invert) == IF invert THEN 1 ELSE 0

\* what every drawing call leaves behind: the frame, the printed lines, no I2C traffic
Drawn(op, args, st) ==
    /\ constructed
    /\ mono_image' = st.image
    /\ printed' = st.printed
    /\ wire' = <<>>
    /\ result' = "ok"
    /\ lastOp' = op
    /\ opArgs' = args
    /\ UNCHANGED <<constructed, address, width, height, bvars>>

\* draw_circle(x0, y0, r, invert)
DrawCircle(x0, y0, r, invert) ==
    Drawn("draw_circle", <<x0, y0, r, Flag(invert)>>, draw_circle(Before, x0, y0, r, Colour(invert)))

\* fill_circle(x0, y0, r, invert)
FillCircle(x0, y0, r, invert) ==
    Drawn("fill_circle", <<x0, y0, r, Flag(invert)>>, fill_circle(Before, x0, y0, r, Colour(invert)))

\* draw_line(x1, y1, x2, y2, invert)
DrawLine(x1, y1, x2, y2, invert) ==
    /\ x1 = x2 \/ y1 = y2
    /\ Drawn("draw_line", <<x1, y1, x2, y2, Flag(invert)>>,
             draw_line(Before, x1, y1, x2, y2, Colour(invert)))

\* draw_lines(coords, invert)
DrawLines(coords, invert) ==
    /\ \A i \in 2..Len(coords) :
           coords[i - 1][1] = coords[i][1] \/ coords[i - 1][2] = coords[i][2]
    /\ Drawn("draw_lines",
             <<coords[1][1], coords[1][2], coords[2][1], coords[2][2],
               coords[3][1], coords[3][2], Flag(invert)>>,
             draw_lines(Before, coords, Colour(invert)))

\* draw_rectangle(x, y, rw, rh, invert)
DrawRectangle(x, y, rw, rh, invert) ==
    Drawn("draw_rectangle", <<x, y, rw, rh, Flag(invert)>>,
          draw_rectangle(Before, x, y, rw, rh, Colour(invert)))

\* draw_sprite(fbuf, x, y, sw, sh) with fbuf = make_fb(buf, sw, sh)
DrawSprite(fbuf, x, y, sw, sh) ==
    Drawn("draw_sprite", <<x, y, sw, sh>>, draw_sprite(Before, fbuf, x, y, sw, sh))

\* the frame is blank, or draw_pixel has just written a pixel of it
Fresh == lastOp \in {"init", "clear_buffers"} \/ (lastOp = "draw_pixel" /\ printed = <<>>)

\* centres offered to the circle calls: on an edge, one step outside, and where a
\* circle of radius MaxR touches the edge from inside
CentreXs == {-1, 0, MaxR, width - 1 - MaxR, width - 1}
CentreYs == {-1, 0, MaxR, height - 1 - MaxR, height - 1, height}

\* coordinates offered to the line calls: each edge, one step outside, the page border
LineXs == {-1, 0, width - 2, width - 1, width}
LineYs == {-1, 0, 7, 8, height - 1, height}
\* corner points offered to draw_lines
PolyPoints == {0, 3, width} \X {0, 2, height - 1}
\* corners offered to draw_rectangle and draw_sprite
CornerXs == {-1, 0, width - MaxSide, width - 1}
CornerYs == {-1, 0, 7, height - MaxSide, height - 1}

NextDraw ==
    \/ \E wd \in CanvasWidths, ht \in CanvasHeights : Construct(120, wd, ht, 0)
    \/ ClearBuffers
    \/ Fresh /\ \E x \in PixelXs, y \in PixelYs, invert \in BOOLEAN : DrawPixel(x, y, invert)
    \/ Fresh /\ \E x0 \in CentreXs, y0 \in CentreYs, r \in 0..MaxR, invert \in BOOLEAN :
                  DrawCircle(x0, y0, r, invert)
    \/ Fresh /\ \E x0 \in CentreXs, y0 \in CentreYs, r \in 0..MaxR, invert \in BOOLEAN :
                  FillCircle(x0, y0, r, invert)
    \/ Fresh /\ \E x1 \in LineXs, x2 \in LineXs, y1 \in LineYs, y2 \in LineYs,
                    invert \in BOOLEAN : DrawLine(x1, y1, x2, y2, invert)
    \/ Fresh /\ \E p \in PolyPoints, q \in PolyPoints, r \in PolyPoints, invert \in BOOLEAN :
                  DrawLines(<<p, q, r>>, invert)
    \/ Fresh /\ \E x \in CornerXs, y \in CornerYs, rw \in 1..(MaxSide + 1),
                    rh \in 1..(MaxSide + 1), invert \in BOOLEAN :
                  DrawRectangle(x, y, rw, rh, invert)
    \/ Fresh /\ \E x \in CornerXs, y \in CornerYs, sw \in 1..MaxSide, sh \in 1..MaxSide,
                    s \in 0..MaxSeed :
                  DrawSprite([buf |-> Pattern(get_byte_size(sw) * sh, s), w |-> sw, h |-> sh],
                             x, y, sw, sh)

SpecDraw == Init /\ [][NextDraw]_vars

---------------------------------------------------------------------------
(* Claims about the drawing primitives, checked under SpecDraw.            *)

\* the box xmin..xmax, ymin..ymax lies on the canvas
OnCanvas(xmin, ymin, xmax, ymax) ==
    xmin >= 0 /\ ymin >= 0 /\ xmax <= width - 1 /\ ymax <= height - 1

\* every pixel of the canvas outside the box is in frame b what it is in frame a
SameOutside(a, b, xmin, ymin, xmax, ymax) ==
    \A x \in 0..(width - 1), y \in 0..(height - 1) :
        (x < xmin \/ x > xmax \/ y < ymin \/ y > ymax) => FramePixel(b, x, y) = FramePixel(a, x, y)

\* C12: draw_pixel(x, y) outside the canvas and draw_sprite(fbuf, x, y, w, h)
\* whose footprint x..x+w-1, y..y+h-1 is not entirely on the canvas leave the
\* frame as it was and print an off-grid line; with the footprint on the
\* canvas the call prints nothing, the pixel gets its colour, and the sprite
\* changes no pixel outside its footprint.
C12_OffGridPixelAndSpriteSkipped ==
    [][/\ lastOp' = "draw_pixel" =>
            LET x == opArgs'[1]
                y == opArgs'[2]
            IN  IF OnCanvas(x, y, x, y)
                THEN /\ printed' = <<>>
                     /\ FramePixel(mono_image', x, y) = 1 - opArgs'[3]
                     /\ SameOutside(mono_image, mono_image', x, y, x, y)
                ELSE mono_image' = mono_image /\ Len(printed') = 1
       /\ lastOp' = "draw_sprite" =>
            LET x == opArgs'[1]
                y == opArgs'[2]
                x2 == x + opArgs'[3] - 1
                y2 == y + opArgs'[4] - 1
            IN  IF OnCanvas(x, y, x2, y2)
                THEN /\ printed' = <<>>
                     /\ SameOutside(mono_image, mono_image', x, y, x2, y2)
                ELSE mono_image' = mono_image /\ Len(printed') = 1
      ]_vars

\* C12 witness: a sprite reaching past the right edge was reported and left the
\* lit pixel of the frame alone
C12_Witness ==
    /\ lastOp = "draw_sprite"
    /\ opArgs[1] >= 0 /\ opArgs[1] + opArgs[3] - 1 >= width
    /\ printed # <<>>
    /\ FramePixel(mono_image, width - 1, 0) = 1

\* the least and the greatest of a non-empty set of integers
Min(S) == CHOOSE m \in S : \A k \in S : m <= k
Max(S) == CHOOSE m \in S : \A k \in S : m >= k

\* the footprint <<xmin, ymin, xmax, ymax>> of a drawing call from its arguments
Footprint(op, a) ==
    CASE op \in {"draw_circle", "fill_circle"} ->
             <<a[1] - a[3], a[2] - a[3], a[1] + a[3], a[2] + a[3]>>
      [] op = "draw_rectangle" -> <<a[1], a[2], a[1] + a[3] - 1, a[2] + a[4] - 1>>
      [] op = "draw_line" ->
             <<Min({a[1], a[3]}), Min({a[2], a[4]}), Max({a[1], a[3]}), Max({a[2], a[4]})>>
      [] op = "draw_lines" ->
             <<Min({a[1], a[3], a[5]}), Min({a[2], a[4], a[6]}),
               Max({a[1], a[3], a[5]}), Max({a[2], a[4], a[6]})>>

\* the footprint of the call lies on the canvas
FootprintOnCanvas(op, a) ==
    LET f == Footprint(op, a) IN OnCanvas(f[1], f[2], f[3], f[4])

\* C13: a drawing primitive (draw_circle, fill_circle, draw_rectangle,
\* draw_lines) whose footprint is not entirely on the canvas is skipped as a
\* whole: the frame after the call is the frame before it.
C13_PartlyOffCanvasSkippedWhole ==
    [][(/\ lastOp' \in {"draw_circle", "fill_circle", "draw_rectangle", "draw_lines"}
        /\ ~FootprintOnCanvas(lastOp', opArgs'))
       => mono_image' = mono_image]_vars

\* C14: draw_line between two points of the canvas that share a row or a
\* column writes its colour to exactly the pixels from one endpoint to the
\* other, both included, and changes no other pixel.
C14_AxisLineExactPixels ==
    [][(lastOp' = "draw_line" /\ FootprintOnCanvas("draw_line", opArgs'))
       => LET f == Footprint("draw_line", opArgs')
          IN  /\ \A x \in f[1]..f[3], y \in f[2]..f[4] :
                     FramePixel(mono_image', x, y) = 1 - opArgs'[5]
              /\ SameOutside(mono_image, mono_image', f[1], f[2], f[3], f[4])]_vars

\* the frame is blank
Blank(image) == \A i \in 1..Len(image) : image[i] = 0

\* C15: for a circle (x0, y0, r) that lies on the canvas, the pixels
\* draw_circle sets on a blank frame are closed under the eight reflections
\* about (x0, y0): with (x0 + dx, y0 + dy) also (x0 +- dx, y0 +- dy) and
\* (x0 +- dy, y0 +- dx) are set; the four axis points at distance r are set
\* and nothing outside the bounding box is.
C15_CircleEightfoldSymmetric ==
    [][(/\ lastOp' = "draw_circle" /\ opArgs'[4] = 0
        /\ Blank(mono_image)
        /\ FootprintOnCanvas("draw_circle", opArgs'))
       => LET x0 == opArgs'[1]
              y0 == opArgs'[2]
              r == opArgs'[3]
              Lit(dx, dy) == FramePixel(mono_image', x0 + dx, y0 + dy) = 1
          IN  /\ \A dx \in (-r)..r, dy \in (-r)..r :
                     Lit(dx, dy) =>
                         /\ Lit(-dx, dy) /\ Lit(dx, -dy) /\ Lit(-dx, -dy)
                         /\ Lit(dy, dx) /\ Lit(-dy, dx) /\ Lit(dy, -dx) /\ Lit(-dy, -dx)
              /\ Lit(0, r) /\ Lit(0, -r) /\ Lit(r, 0) /\ Lit(-r, 0)
              /\ SameOutside(mono_image, mono_image', x0 - r, y0 - r, x0 + r, y0 + r)
              /\ printed' = <<>>]_vars

\* C15 witness: a circle of radius 2 or more that lies on the canvas was drawn;
\* its off-axis pixel (x0 - r, y0 - 1) and the reflection (x0 + 1, y0 + r) are lit
C15_Witness ==
    /\ lastOp = "draw_circle" /\ opArgs[4] = 0
    /\ opArgs[3] >= 2
    /\ FootprintOnCanvas("draw_circle", opArgs)
    /\ FramePixel(mono_image, opArgs[1] - opArgs[3], opArgs[2] - 1) = 1
    /\ FramePixel(mono_image, opArgs[1] + 1, opArgs[2] + opArgs[3]) = 1

\* C16: for a circle that lies on the canvas, fill_circle on a blank frame
\* sets, in every column, exactly the pixels from the topmost to the
\* bottommost outline pixel draw_circle sets in that column (none in a column
\* draw_circle does not touch).
C16_FillIsOutlineColumnSpans ==
    [][(/\ lastOp' = "fill_circle" /\ opArgs'[4] = 0
        /\ Blank(mono_image)
        /\ FootprintOnCanvas("fill_circle", opArgs'))
       => LET outline == draw_circle(Before, opArgs'[1], opArgs'[2], opArgs'[3], 1).image
          IN  \A x \in 0..(width - 1), y \in 0..(height - 1) :
                  (FramePixel(mono_image', x, y) = 1) <=>
                      /\ \E ya \in 0..y : FramePixel(outline, x, ya) = 1
                      /\ \E yb \in y..(height - 1) : FramePixel(outline, x, yb) = 1]_vars

---------------------------------------------------------------------------
(* The half turn and the window size.                                      *)

\* xform_buf(rotate=90) applied twice to the loaded bitmap
QuarterTurnTwice ==
    LET once == xform_buf(loaded.buf, loaded.w, loaded.h, FALSE, 90)
    IN  xform_buf(once.out, once.new_w, once.new_h, FALSE, 90)

\* C17: for a loaded row-major bitmap whose padding bits are 0,
\* xform_buf(rotate=180) returns the dimensions and the buffer that two
\* xform_buf(rotate=90) calls return: result pixel (w-1-x, h-1-y) is source
\* pixel (x, y), for every width.
C17_HalfTurnIsTwoQuarterTurns ==
    (Rotated(180) /\ reps = 1 /\ PaddingClear(loaded.buf, loaded.w, loaded.h)) =>
        /\ new_w = QuarterTurnTwice.new_w /\ new_h = QuarterTurnTwice.new_h
        /\ out = QuarterTurnTwice.out
        /\ \A x \in 0..(loaded.w - 1), y \in 0..(loaded.h - 1) :
               HmsbPixel(out, new_w, (loaded.w - 1) - x, (loaded.h - 1) - y) =
                   HmsbPixel(loaded.buf, loaded.w, x, y)

\* C18: the frame bytes present() streams in its data transfer are as many
\* as the addressing window it has just set holds:
\* (column_end - column_begin + 1) * (page_end - page_begin + 1).
C18_StreamFillsWindow ==
    (RanPresent /\ constructed /\ result = "ok") =>
        LET off == PresentOffset
            column_beg == wire[off + 2].bytes[2]
            column_end == wire[off + 3].bytes[2]
            pages_beg == wire[off + 5].bytes[2]
            pages_end == wire[off + 6].bytes[2]
        IN  Len(wire[off + 7].bytes) - 1 =
                (column_end - column_beg + 1) * (pages_end - pages_beg + 1)

====
